---- MODULE Spec2Model ----
(***************************************************************************)
(* Model of app.py: the request handler `run` of the speech-to-speech      *)
(* translation demo, its audio preprocessing, and the name-to-code map.    *)
(* A request is one call of run(input_audio_path, target_language).  The   *)
(* handler takes no lock, so the steps of requests that are in flight at   *)
(* the same time interleave; the files on disk are the shared state.       *)
(***************************************************************************)
EXTENDS Integers, Sequences, FiniteSets, TLC

(* ---------------------------------------------------------------------- *)
(* Bounds                                                                 *)
(* ---------------------------------------------------------------------- *)
\* number of calls of run in one behaviour
MaxRequests == 2

Requests == 1..MaxRequests

(* ---------------------------------------------------------------------- *)
(* Program constants                                                      *)
(* ---------------------------------------------------------------------- *)
AUDIO_SAMPLE_RATE == 44100

MAX_INPUT_AUDIO_LENGTH == 60

\* utils.LANGUAGE_CODE_TO_NAME, a dict, as its items in insertion order
LANGUAGE_CODE_TO_NAME ==
    << <<"eng", "English">>, <<"fra", "French">>, <<"deu", "German">>,
       <<"ita", "Italian">>, <<"cmn", "Mandarin Chinese">>, <<"spa", "Spanish">> >>

\* the keys of a dict built by {v: k for k, v in d.items()}
InvertedKeys(items) == {items[i][2] : i \in DOMAIN items}

\* the dict copied without swapping keys and values
InvertDict_NotInverted(items) ==
    [k \in {items[i][1] : i \in DOMAIN items} |->
        LET last == CHOOSE i \in DOMAIN items :
                        /\ items[i][1] = k
                        /\ \A j \in DOMAIN items : items[j][1] = k => j <= i
        IN  items[last][2]]

\* {v: k for k, v in d.items()}: a later item overwrites an earlier one
InvertDict(items) ==
    [v \in InvertedKeys(items) |->
        LET last == CHOOSE i \in DOMAIN items :
                        /\ items[i][2] = v
                        /\ \A j \in DOMAIN items : items[j][2] = v => j <= i
        IN  items[last][1]]

LANGUAGE_NAME_TO_CODE == InvertDict(LANGUAGE_CODE_TO_NAME)

TARGET_LANGUAGE_NAMES ==
    <<"English", "French", "German", "Italian", "Mandarin Chinese", "Spanish">>

Range(s) == {s[i] : i \in DOMAIN s}

\* the rows of gr.Examples
Examples ==
    { <<[stem |-> "assets/sample_input", suffix |-> ".mp3"], "French">>,
      <<[stem |-> "assets/sample_input", suffix |-> ".mp3"], "Mandarin Chinese">>,
      <<[stem |-> "assets/sample_input_2", suffix |-> ".mp3"], "French">>,
      <<[stem |-> "assets/sample_input_2", suffix |-> ".mp3"], "Spanish">> }

\* the file of a gr.Audio(type="filepath") upload
UploadPath == [stem |-> "upload", suffix |-> ".wav"]

\* the calls of run: an example row, and an upload with a name of the
\* dropdown or, through the programmatic endpoint, a name that is not in it
Calls ==
    {e \in Examples : e[1].stem = "assets/sample_input" /\ e[2] = "French"}
        \cup {<<UploadPath, "Mandarin Chinese">>, <<UploadPath, "Klingon">>}

\* the paths run is called with
InputPaths == {c[1] : c \in Calls}

\* names tempfile.NamedTemporaryFile can draw; one per request is enough
TmpNames == 1..MaxRequests

(* ---------------------------------------------------------------------- *)
(* Audio values                                                           *)
(* ---------------------------------------------------------------------- *)
\* A waveform tensor: n samples per channel of the recording `clip`,
\* after the resamplings `rs` (pairs <<orig_freq, new_freq>>) and `gen`
\* passes through a lossy codec.  Two tensors are equal iff all agree.
Wav(clip, n) == [clip |-> clip, n |-> n, rs |-> <<>>, gen |-> 0]

NoWav == Wav("none", 0)

AudioFile(sr, wav) == [kind |-> "audio", sr |-> sr, wav |-> wav]

\* bytes that no decoder accepts (malformed, or zero bytes long)
CorruptFile == [kind |-> "corrupt", sr |-> 0, wav |-> NoWav]

\* a file opened for writing whose contents are not yet written
PartialFile == [kind |-> "partial", sr |-> 0, wav |-> NoWav]

Decodable(file) == file.kind = "audio"

RECURSIVE GCD(_, _)
GCD(a, b) == IF b = 0 THEN a ELSE GCD(b, a % b)

\* the length rounded down: the last partial sample is dropped
ResampledLength_Floor(n, orig_freq, new_freq) ==
    LET g == GCD(orig_freq, new_freq)
        o == orig_freq \div g
        w == new_freq \div g
    IN  (n * w) \div o

\* torchaudio.functional.resample: the output has
\* ceil(new_freq * length / orig_freq) samples, the rates reduced by their gcd
ResampledLength(n, orig_freq, new_freq) ==
    LET g == GCD(orig_freq, new_freq)
        o == orig_freq \div g
        w == new_freq \div g
    IN  (n * w + o - 1) \div o

\* torchaudio.functional.resample returns its input when the rates agree
resample(arr, orig_freq, new_freq) ==
    IF orig_freq = new_freq
    THEN arr
    ELSE [arr EXCEPT !.n = ResampledLength(arr.n, orig_freq, new_freq),
                     !.rs = Append(arr.rs, <<orig_freq, new_freq>>)]

max_length == MAX_INPUT_AUDIO_LENGTH * AUDIO_SAMPLE_RATE

TooLong(new_arr) == new_arr.n > max_length

\* the slice one sample too long
Truncate_OffByOne(new_arr) == [new_arr EXCEPT !.n = max_length + 1]

\* new_arr[:, :max_length]
Truncate(new_arr) == [new_arr EXCEPT !.n = max_length]

\* the codec torchaudio.save picks from the file name's suffix
Lossy(path) == path.suffix = ".mp3"

\* what a decoder reads back from the file torchaudio.save wrote: the
\* tensor itself for float PCM, a degraded copy for a lossy codec
Encode(path, wav) ==
    IF Lossy(path) THEN [wav EXCEPT !.gen = wav.gen + 1] ELSE wav

\* torchaudio.save(path, wav, sample_rate=sr)
SavedFile(path, wav, sr) == AudioFile(sr, Encode(path, wav))

(* ---------------------------------------------------------------------- *)
(* The collaborators, as functions of their inputs                        *)
(* ---------------------------------------------------------------------- *)
NoFeat == [stage |-> "none", fbank |-> NoWav, gcmvn_fbank |-> NoWav, sample_rate |-> 0]

\* decode_audio(block): the waveform and its sample rate
decode_audio(file) ==
    [stage |-> "waveform", fbank |-> file.wav, gcmvn_fbank |-> NoWav,
     sample_rate |-> file.sr]

\* convert_to_fbank(example)
convert_to_fbank(example) == [example EXCEPT !.stage = "fbank"]

\* normalize_fbank(data): both standardized copies come from data["fbank"]
normalize_fbank(data) ==
    [data EXCEPT !.stage = "normalized", !.gcmvn_fbank = data.fbank]

\* collate(example)
collate(example) == [example EXCEPT !.stage = "collated"]

NoOutput == [src |-> NoFeat, lang |-> "none"]

\* translator.predict(example["fbank"], "S2ST", code, ...,
\*                   prosody_encoder_input=example["gcmvn_fbank"])
TranslatorPredict(example, code) == [src |-> example, lang |-> code]

\* pretssel_generator.predict(units, tgt_lang=code, prosody_encoder_input=...)
VocoderPredict(unit_output, code) == [src |-> unit_output.src, lang |-> code]

(* ---------------------------------------------------------------------- *)
(* State                                                                  *)
(* ---------------------------------------------------------------------- *)
VARIABLES
    files,              \* input path -> the file on disk
    writer,             \* input path -> the request that last wrote it, 0 if none
    tmpfiles,           \* temporary name -> the output file on disk
    pc,                 \* request -> the line of run it is at
    input_audio_path,   \* request -> argument of run
    target_language,    \* request -> argument of run
    arr,                \* request -> (arr, org_sr) of preprocess_audio
    new_arr,            \* request -> new_arr of preprocess_audio
    warnings,           \* request -> number of gr.Warning raised
    example,            \* request -> example of run
    output,             \* request -> (text_output, unit_output) of run
    speech_output,      \* request -> speech_output of run
    f,                  \* request -> name of its temporary file, 0 if none
    error,              \* request -> the exception run ended with
    result,             \* request -> the pair run returned
    log                 \* request -> the steps it has completed, in order

vars == <<files, writer, tmpfiles, pc, input_audio_path, target_language, arr, new_arr,
          warnings, example, output, speech_output, f, error, result, log>>

NoPath == [stem |-> "none", suffix |-> "none"]

NoArr == [wav |-> NoWav, org_sr |-> 0]

NoTmp == [state |-> "absent", by |-> 0, audio |-> NoOutput]

NoResult == [path |-> 0, text |-> NoOutput]

\* the recording behind an example file: 90 s at 44.1 kHz
SampleFile(p) == AudioFile(44100, Wav(p.stem, 3969000))

\* what a user can upload
UploadFiles ==
    { CorruptFile,
      AudioFile(16000, Wav("speech", 160000)),       \* 10 s
      AudioFile(48000, Wav("speech", 2880001)),      \* one sample over 60 s
      AudioFile(48000, Wav("speech", 2879999)) }     \* one sample under 60 s

Init ==
    /\ \E u \in UploadFiles :
        files = [p \in InputPaths |-> IF p = UploadPath THEN u ELSE SampleFile(p)]
    /\ writer = [p \in InputPaths |-> 0]
    /\ tmpfiles = [t \in TmpNames |-> NoTmp]
    /\ pc = [r \in Requests |-> "queued"]
    /\ input_audio_path = [r \in Requests |-> NoPath]
    /\ target_language = [r \in Requests |-> "none"]
    /\ arr = [r \in Requests |-> NoArr]
    /\ new_arr = [r \in Requests |-> NoWav]
    /\ warnings = [r \in Requests |-> 0]
    /\ example = [r \in Requests |-> NoFeat]
    /\ output = [r \in Requests |-> NoOutput]
    /\ speech_output = [r \in Requests |-> NoOutput]
    /\ f = [r \in Requests |-> 0]
    /\ error = [r \in Requests |-> "none"]
    /\ result = [r \in Requests |-> NoResult]
    /\ log = [r \in Requests |-> <<>>]

(* ---------------------------------------------------------------------- *)
(* run, one action per step; each step that can raise has a failing twin  *)
(* ---------------------------------------------------------------------- *)
\* run's frame is gone once it returns or raises, and its locals with it
DropLocals(r) ==
    /\ arr' = [arr EXCEPT ![r] = NoArr]
    /\ new_arr' = [new_arr EXCEPT ![r] = NoWav]
    /\ example' = [example EXCEPT ![r] = NoFeat]
    /\ output' = [output EXCEPT ![r] = NoOutput]
    /\ speech_output' = [speech_output EXCEPT ![r] = NoOutput]
    /\ f' = [f EXCEPT ![r] = 0]

\* an exception leaves run: nothing is returned
Raise(r, exc) ==
    /\ pc' = [pc EXCEPT ![r] = "failed"]
    /\ error' = [error EXCEPT ![r] = exc]
    /\ DropLocals(r)

Step(r, from, to, name) ==
    /\ pc[r] = from
    /\ pc' = [pc EXCEPT ![r] = to]
    /\ log' = [log EXCEPT ![r] = Append(@, name)]

\* requests are numbered in the order in which run is entered
Enters(r) ==
    /\ pc[r] = "queued"
    /\ \A q \in Requests : q < r => pc[q] # "queued"

\* run(input_audio_path, target_language), line 144 finds the name
Lookup(r) ==
    /\ Enters(r)
    /\ \E c \in Calls :
        /\ c[2] \in DOMAIN LANGUAGE_NAME_TO_CODE
        /\ input_audio_path' = [input_audio_path EXCEPT ![r] = c[1]]
        /\ target_language' = [target_language EXCEPT ![r] = c[2]]
    /\ pc' = [pc EXCEPT ![r] = "load"]
    /\ log' = [log EXCEPT ![r] = Append(@, "lookup")]
    /\ UNCHANGED <<files, writer, tmpfiles, arr, new_arr, warnings, example, output,
                   speech_output, f, error, result>>

\* the lookup made after preprocess_audio has opened the input file
LookupFails_AfterPreprocess(r) ==
    /\ Enters(r)
    /\ \E c \in Calls :
        /\ c[2] \notin DOMAIN LANGUAGE_NAME_TO_CODE
        /\ input_audio_path' = [input_audio_path EXCEPT ![r] = c[1]]
        /\ target_language' = [target_language EXCEPT ![r] = c[2]]
        /\ files' = [files EXCEPT ![c[1]] = PartialFile]
        /\ writer' = [writer EXCEPT ![c[1]] = r]
    /\ Raise(r, "KeyError")
    /\ UNCHANGED <<tmpfiles, warnings, result, log>>

\* run(input_audio_path, target_language), line 144 raises KeyError
LookupFails(r) ==
    /\ Enters(r)
    /\ \E c \in Calls :
        /\ c[2] \notin DOMAIN LANGUAGE_NAME_TO_CODE
        /\ input_audio_path' = [input_audio_path EXCEPT ![r] = c[1]]
        /\ target_language' = [target_language EXCEPT ![r] = c[2]]
    /\ Raise(r, "KeyError")
    /\ UNCHANGED <<files, writer, tmpfiles, warnings, result, log>>

target_language_code(r) == LANGUAGE_NAME_TO_CODE[target_language[r]]

\* preprocess_audio, lines 135-139, on the tensor and rate that were loaded
Preprocessed(a) ==
    LET resampled == resample(a.wav, a.org_sr, AUDIO_SAMPLE_RATE)
    IN  IF TooLong(resampled)
        THEN [wav |-> Truncate(resampled), warned |-> 1]
        ELSE [wav |-> resampled, warned |-> 0]

\* torchaudio.load(path): the tensor and the sample rate of the file
Loaded(file) == [wav |-> file.wav, org_sr |-> file.sr]

\* preprocess_audio returning after line 139, the file not written back
Load_SkipsSave(r) ==
    /\ pc[r] = "load"
    /\ Decodable(files[input_audio_path[r]])
    /\ pc' = [pc EXCEPT ![r] = "decode"]
    /\ log' = [log EXCEPT ![r] = @ \o <<"load", "resample">>]
    /\ arr' = [arr EXCEPT ![r] = Loaded(files[input_audio_path[r]])]
    /\ new_arr' = [new_arr EXCEPT ![r] =
                        Preprocessed(Loaded(files[input_audio_path[r]])).wav]
    /\ warnings' = [warnings EXCEPT ![r] =
                        @ + Preprocessed(Loaded(files[input_audio_path[r]])).warned]
    /\ UNCHANGED <<files, writer, tmpfiles, input_audio_path, target_language,
                   example, output, speech_output, f, error, result>>

\* preprocess_audio, lines 134-139: load the file, resample, truncate, warn
Load(r) ==
    /\ pc[r] = "load"
    /\ Decodable(files[input_audio_path[r]])
    /\ pc' = [pc EXCEPT ![r] = "save"]
    /\ log' = [log EXCEPT ![r] = @ \o <<"load", "resample">>]
    /\ arr' = [arr EXCEPT ![r] = Loaded(files[input_audio_path[r]])]
    /\ new_arr' = [new_arr EXCEPT ![r] =
                        Preprocessed(Loaded(files[input_audio_path[r]])).wav]
    /\ warnings' = [warnings EXCEPT ![r] =
                        @ + Preprocessed(Loaded(files[input_audio_path[r]])).warned]
    /\ UNCHANGED <<files, writer, tmpfiles, input_audio_path, target_language,
                   example, output, speech_output, f, error, result>>

\* the load error swallowed: run goes on to read the file back
LoadFails_Continues(r) ==
    /\ pc[r] = "load"
    /\ ~Decodable(files[input_audio_path[r]])
    /\ pc' = [pc EXCEPT ![r] = "decode"]
    /\ UNCHANGED <<files, writer, tmpfiles, input_audio_path, target_language, arr,
                   new_arr, warnings, example, output, speech_output, f, error,
                   result, log>>

\* preprocess_audio, line 134: torchaudio.load raises; run does not catch it
LoadFails(r) ==
    /\ pc[r] = "load"
    /\ ~Decodable(files[input_audio_path[r]])
    /\ Raise(r, "LoadError")
    /\ UNCHANGED <<files, writer, tmpfiles, input_audio_path, target_language, warnings,
                   result, log>>

\* preprocess_audio, line 140: torchaudio.save opens the input file for writing
SaveOpen(r) ==
    /\ Step(r, "save", "saving", "open")
    /\ files' = [files EXCEPT ![input_audio_path[r]] = PartialFile]
    /\ writer' = [writer EXCEPT ![input_audio_path[r]] = r]
    /\ UNCHANGED <<tmpfiles, input_audio_path, target_language, arr, new_arr,
                   warnings, example, output, speech_output, f, error, result>>

\* preprocess_audio, line 140: torchaudio.save writes the file and closes it
SaveWrite(r) ==
    /\ Step(r, "saving", "decode", "save")
    /\ files' = [files EXCEPT ![input_audio_path[r]] =
                    SavedFile(input_audio_path[r], new_arr[r], AUDIO_SAMPLE_RATE)]
    /\ writer' = [writer EXCEPT ![input_audio_path[r]] = r]
    /\ UNCHANGED <<tmpfiles, input_audio_path, target_language, arr, new_arr,
                   warnings, example, output, speech_output, f, error, result>>

\* run, lines 148-154: read the file back, decode it, and convert the
\* waveform, each conversion on the result of the last
ExtractFeatures(r) ==
    /\ pc[r] = "decode"
    /\ Decodable(files[input_audio_path[r]])
    /\ pc' = [pc EXCEPT ![r] = "translate"]
    /\ log' = [log EXCEPT ![r] = @ \o <<"decode", "fbank", "normalize", "collate">>]
    /\ example' = [example EXCEPT ![r] =
            collate(normalize_fbank(convert_to_fbank(
                decode_audio(files[input_audio_path[r]]))))]
    /\ UNCHANGED <<files, writer, tmpfiles, input_audio_path, target_language, arr, new_arr,
                   warnings, output, speech_output, f, error, result>>

\* run, line 150: decode_audio raises; run does not catch it
DecodeFails(r) ==
    /\ pc[r] = "decode"
    /\ ~Decodable(files[input_audio_path[r]])
    /\ Raise(r, "DecodeError")
    /\ UNCHANGED <<files, writer, tmpfiles, input_audio_path, target_language, warnings,
                   result, log>>

\* run, lines 156-167
Translate(r) ==
    /\ Step(r, "translate", "vocode", "translate")
    /\ output' = [output EXCEPT ![r] =
                    TranslatorPredict(example[r], target_language_code(r))]
    /\ UNCHANGED <<files, writer, tmpfiles, input_audio_path, target_language, arr, new_arr,
                   warnings, example, speech_output, f, error, result>>

\* the translator raises; run does not catch it
TranslateFails(r) ==
    /\ pc[r] = "translate"
    /\ Raise(r, "TranslatorError")
    /\ UNCHANGED <<files, writer, tmpfiles, input_audio_path, target_language, warnings,
                   result, log>>

\* run, lines 168-172
Vocode(r) ==
    /\ Step(r, "vocode", "mktemp", "vocode")
    /\ speech_output' = [speech_output EXCEPT ![r] =
                            VocoderPredict(output[r], target_language_code(r))]
    /\ UNCHANGED <<files, writer, tmpfiles, input_audio_path, target_language, arr, new_arr,
                   warnings, example, output, f, error, result>>

\* the vocoder raises; run does not catch it
VocodeFails(r) ==
    /\ pc[r] = "vocode"
    /\ Raise(r, "VocoderError")
    /\ UNCHANGED <<files, writer, tmpfiles, input_audio_path, target_language, warnings,
                   result, log>>

\* a name picked without looking at the files that exist
FreshNames_AnyName == {t \in TmpNames : \A u \in TmpNames : t <= u}

\* the name NamedTemporaryFile picks is one of no existing file; names are
\* interchangeable, so the first free one stands for any of them
FreshNames ==
    LET free == {t \in TmpNames : tmpfiles[t].state = "absent"}
    IN  {t \in free : \A u \in free : t <= u}

\* run, line 174: NamedTemporaryFile(suffix=".wav", delete=False) creates a file
MkTemp(r) ==
    /\ Step(r, "mktemp", "write", "mktemp")
    /\ \E t \in FreshNames :
        /\ f' = [f EXCEPT ![r] = t]
        /\ tmpfiles' = [tmpfiles EXCEPT ![t] =
                            [state |-> "empty", by |-> r, audio |-> NoOutput]]
    /\ UNCHANGED <<files, writer, input_audio_path, target_language, arr, new_arr,
                   warnings, example, output, speech_output, error, result>>

\* run, lines 175-180: torchaudio.save(f.name, ...), then return
WriteOutput(r) ==
    /\ Step(r, "write", "done", "write")
    /\ tmpfiles' = [tmpfiles EXCEPT ![f[r]] =
                        [state |-> "written", by |-> r, audio |-> speech_output[r]]]
    /\ result' = [result EXCEPT ![r] = [path |-> f[r], text |-> output[r]]]
    /\ DropLocals(r)
    /\ UNCHANGED <<files, writer, input_audio_path, target_language, warnings, error>>

\* torchaudio.save(f.name, ...) raises; the with block closes the file,
\* which delete=False keeps on disk
WriteOutputFails(r) ==
    /\ pc[r] = "write"
    /\ Raise(r, "SaveError")
    /\ UNCHANGED <<files, writer, tmpfiles, input_audio_path, target_language, warnings,
                   result, log>>

Next ==
    \E r \in Requests :
        \/ Lookup(r)
        \/ LookupFails(r)
        \/ Load(r)
        \/ LoadFails(r)
        \/ SaveOpen(r)
        \/ SaveWrite(r)
        \/ ExtractFeatures(r)
        \/ DecodeFails(r)
        \/ Translate(r)
        \/ TranslateFails(r)
        \/ Vocode(r)
        \/ VocodeFails(r)
        \/ MkTemp(r)
        \/ WriteOutput(r)
        \/ WriteOutputFails(r)

Spec == Init /\ [][Next]_vars

(* ---------------------------------------------------------------------- *)
(* Properties                                                             *)
(* ---------------------------------------------------------------------- *)
IsPrefix(s, t) == Len(s) <= Len(t) /\ \A i \in 1..Len(s) : s[i] = t[i]

\* the steps of run in the order of its source lines
StepOrder ==
    <<"lookup", "load", "resample", "open", "save", "decode", "fbank", "normalize",
      "collate", "translate", "vocode", "mktemp", "write">>

\* the input file of r, as loaded, is longer than 60 s once resampled
LoadedTooLong(r) ==
    LET g == GCD(arr[r].org_sr, AUDIO_SAMPLE_RATE)
    IN  arr[r].wav.n * (AUDIO_SAMPLE_RATE \div g)
            > 60 * 44100 * (arr[r].org_sr \div g)

\* the input file of r, as loaded, is shorter than 60 s
LoadedUnder60s(r) == arr[r].wav.n < 60 * arr[r].org_sr

Preprocessing(r) == pc[r] \in {"save", "saving"}

\* the temporary files request r has created and not removed
TmpFilesOf(r) == {t \in TmpNames : tmpfiles[t].state # "absent" /\ tmpfiles[t].by = r}

Offered == Range(TARGET_LANGUAGE_NAMES) \cup {e[2] : e \in Examples}

\* C1: every request takes the steps of run in the one fixed order
\* (preprocessing, feature extraction, translator, vocoder, output file),
\* and what feature extraction decodes is already at 44100 Hz and at most
\* 60 s long: an input that was too long has been truncated before.
C1_StepsInOrder ==
    \A r \in Requests :
        /\ IsPrefix(log[r], StepOrder)
        /\ example[r].stage # "none" =>
            /\ example[r].sample_rate = 44100
            /\ example[r].fbank.n <= 60 * 44100
            /\ LoadedTooLong(r) => warnings[r] = 1 /\ example[r].fbank.n = 60 * 44100

C1_Witness ==
    \E r \in Requests :
        /\ pc[r] = "write"
        /\ log[r] = SubSeq(StepOrder, 1, 12)
        /\ LoadedTooLong(r)

\* C2: when the loaded input is longer than 60 s once resampled, what
\* preprocess_audio hands to torchaudio.save is the first 60 * 44100 samples
\* of the resampled recording, a warning has been raised, and the save
\* leaves a file of exactly that many samples at 44100 Hz.
C2_TruncatesLongInput ==
    /\ [](\A r \in Requests :
            Preprocessing(r) /\ LoadedTooLong(r) =>
                /\ new_arr[r].n = 60 * 44100
                /\ new_arr[r].clip = arr[r].wav.clip
                /\ new_arr[r].gen = arr[r].wav.gen
                /\ new_arr[r].rs = IF arr[r].org_sr = 44100 THEN arr[r].wav.rs
                                   ELSE Append(arr[r].wav.rs, <<arr[r].org_sr, 44100>>)
                /\ warnings[r] = 1)
    /\ [][\A r \in Requests :
            pc[r] = "saving" /\ pc'[r] = "decode" /\ LoadedTooLong(r) =>
                /\ files'[input_audio_path[r]].kind = "audio"
                /\ files'[input_audio_path[r]].sr = 44100
                /\ files'[input_audio_path[r]].wav.n = 60 * 44100
                /\ files'[input_audio_path[r]].wav.clip = arr[r].wav.clip]_vars

C2_Witness ==
    \E r \in Requests :
        /\ pc[r] = "decode"
        /\ LoadedTooLong(r)
        /\ arr[r].org_sr # 44100
        /\ files[input_audio_path[r]].kind = "audio"
        /\ files[input_audio_path[r]].wav.n = 60 * 44100

\* C3: when the loaded input is shorter than 60 s, preprocess_audio drops
\* no sample (the tensor it saves covers the whole input, to within the one
\* sample of rounding) and the file it writes is at 44100 Hz, whatever the
\* rate of the input.
C3_KeepsShortInput ==
    /\ [](\A r \in Requests :
            Preprocessing(r) /\ LoadedUnder60s(r) =>
                LET g == GCD(arr[r].org_sr, 44100)
                    o == arr[r].org_sr \div g
                    w == 44100 \div g
                IN  /\ new_arr[r].n * o >= arr[r].wav.n * w
                    /\ (new_arr[r].n - 1) * o < arr[r].wav.n * w
                    /\ new_arr[r].clip = arr[r].wav.clip)
    /\ [][\A r \in Requests :
            pc[r] = "saving" /\ pc'[r] = "decode" /\ LoadedUnder60s(r) =>
                /\ files'[input_audio_path[r]].kind = "audio"
                /\ files'[input_audio_path[r]].sr = 44100
                /\ files'[input_audio_path[r]].wav.n = new_arr[r].n
                /\ files'[input_audio_path[r]].wav.clip = arr[r].wav.clip]_vars

C3_Witness ==
    \E r \in Requests :
        /\ pc[r] = "decode"
        /\ LoadedUnder60s(r)
        /\ arr[r].org_sr = 48000
        /\ files[input_audio_path[r]].kind = "audio"
        /\ files[input_audio_path[r]].sr = 44100

\* C4: a request that finds its input file undecodable at torchaudio.load
\* ends there with the decoder's error, and a request that ended with a
\* decoding error has returned nothing, has created no temporary file and
\* has called neither the translator nor the vocoder.
C4_DecodeFailureNoOutput ==
    /\ [][\A r \in Requests :
            /\ pc[r] = "load"
            /\ ~Decodable(files[input_audio_path[r]])
            /\ pc'[r] # "load"
            => pc'[r] = "failed" /\ error'[r] = "LoadError"]_vars
    /\ [](\A r \in Requests :
            error[r] \in {"LoadError", "DecodeError"} =>
                /\ pc[r] = "failed"
                /\ result[r] = NoResult
                /\ TmpFilesOf(r) = {}
                /\ \A i \in DOMAIN log[r] :
                        log[r][i] \notin {"translate", "vocode", "mktemp", "write"})

C4_Witness ==
    \E r \in Requests :
        /\ error[r] = "LoadError"
        /\ files[input_audio_path[r]] = CorruptFile

\* C5: a call with a name that is no key of the name-to-code map fails
\* with KeyError as its first step: that step changes no file, and the
\* request has done nothing else (no step logged, no warning, no temporary
\* file, no result).
C5_UnknownNameFailsFirst ==
    /\ [][\A r \in Requests :
            /\ pc[r] = "queued"
            /\ pc'[r] # "queued"
            /\ target_language'[r] \notin DOMAIN LANGUAGE_NAME_TO_CODE
            => /\ pc'[r] = "failed"
               /\ error'[r] = "KeyError"
               /\ files' = files
               /\ tmpfiles' = tmpfiles]_vars
    /\ [](\A r \in Requests :
            pc[r] # "queued" /\ target_language[r] \notin DOMAIN LANGUAGE_NAME_TO_CODE =>
                /\ pc[r] = "failed"
                /\ error[r] = "KeyError"
                /\ log[r] = <<>>
                /\ warnings[r] = 0
                /\ TmpFilesOf(r) = {}
                /\ result[r] = NoResult)

C5_Witness ==
    \E r \in Requests :
        /\ error[r] = "KeyError"
        /\ target_language[r] = "Klingon"
        /\ files[input_audio_path[r]].kind = "audio"

\* C6: a request that failed, at whatever step, has returned nothing and
\* has left no output file behind.
C6_FailureLeavesNothing ==
    \A r \in Requests :
        pc[r] = "failed" => result[r] = NoResult /\ TmpFilesOf(r) = {}

\* C7: requests share no file: while a request is between loading and
\* reading back its input file, that file is not one another request has
\* written, and no request has the file open for writing while another
\* request is about to read or write it.
C7_NoSharedFile ==
    \A r \in Requests :
        pc[r] \in {"load", "save", "saving", "decode"} =>
            /\ writer[input_audio_path[r]] \in {0, r}
            /\ \A q \in Requests \ {r} :
                  ~(/\ pc[q] = "saving"
                    /\ input_audio_path[q] = input_audio_path[r])

\* C8: two calls of run with the same path and the same target language
\* that both returned have returned the same text.
C8_RepeatedCallSameText ==
    \A r, q \in Requests :
        /\ pc[r] = "done"
        /\ pc[q] = "done"
        /\ input_audio_path[r] = input_audio_path[q]
        /\ target_language[r] = target_language[q]
        => result[r].text = result[q].text

\* C9: every call that returned has returned the name of a temporary file
\* that exists, holds what that call wrote, and is the file of no other
\* call; there are as many written output files as calls that returned.
C9_OutputFilesKept ==
    /\ \A r \in Requests :
        pc[r] = "done" =>
            /\ result[r].path \in TmpNames
            /\ tmpfiles[result[r].path].state = "written"
            /\ tmpfiles[result[r].path].by = r
            /\ tmpfiles[result[r].path].audio.src = result[r].text.src
    /\ \A r, q \in Requests :
        pc[r] = "done" /\ pc[q] = "done" /\ r # q => result[r].path # result[q].path
    /\ Cardinality({t \in TmpNames : tmpfiles[t].state = "written"})
            = Cardinality({r \in Requests : pc[r] = "done"})

C9_Witness ==
    \E r, q \in Requests :
        /\ r # q
        /\ pc[r] = "done"
        /\ pc[q] = "done"
        /\ input_audio_path[r] = input_audio_path[q]
        /\ target_language[r] = target_language[q]

====
